---------------------------- MODULE Spec2Model ----------------------------
(***************************************************************************)
(* The CRAG agent of app/agent: the query router, the retrieval node with  *)
(* its fallback chain, the heuristic grader, the answer node, and the      *)
(* LangGraph workflow that runs them over a dict state.                    *)
(*                                                                         *)
(* Strings are sequences of one-character strings, so that the regular     *)
(* expressions of the router, str.strip, str.lower, str.split and the      *)
(* substring test of the grader are computed on characters.  Scores are    *)
(* exact rationals <<n, d>> with d > 0.                                    *)
(***************************************************************************)
EXTENDS Integers, Sequences, FiniteSets, TLC

VARIABLES
    state,      \* the graph's dict state: a function from the keys present
    node,       \* the node the workflow runs next, or "END" / "ABORT"
    visited,    \* the nodes run so far, in order
    corpus,     \* the ids of the chunks the document store holds
    pc,         \* the await at which retrieve_documents is suspended
    chunks,     \* retrieve_documents' local `chunks`
    vec_chunks, \* _search_hybrid's local `vec_chunks`
    fts_chunks, \* _search_hybrid's local `fts_chunks`
    calls,      \* the external calls issued so far: [op, ctx, ok, n]
    raised,     \* an exception has escaped a node to the orchestrator
    response,   \* what the chat endpoint answers
    other       \* the run suspended at an await while this one runs, if any

vars == <<state, node, visited, corpus, pc, chunks, vec_chunks, fts_chunks,
          calls, raised, response, other>>

\* Python's None where a str or a list is expected, and where an object is
None == <<"None">>

Null == [none |-> TRUE]

---------------------------------------------------------------------------
(* Characters *)

DIGITS == {"0", "1", "2", "3", "4", "5", "6", "7", "8", "9"}

UPPER == <<"A", "B", "C", "D", "E", "F", "G", "H", "I", "J", "K", "L",
           "M", "N", "O", "P", "Q", "R", "S", "T", "U", "V", "W", "X",
           "Y", "Z", "Ö", "Ü">>

LOWER == <<"a", "b", "c", "d", "e", "f", "g", "h", "i", "j", "k", "l",
           "m", "n", "o", "p", "q", "r", "s", "t", "u", "v", "w", "x",
           "y", "z", "ö", "ü">>

LETTERS == {UPPER[i] : i \in DOMAIN UPPER} \cup {LOWER[i] : i \in DOMAIN LOWER}

IsDigit(c) == c \in DIGITS

\* \w of the re module (str patterns are Unicode)
IsWord(c) == c \in LETTERS \cup DIGITS \cup {"_"}

\* \s of the re module, str.isspace
IsSpace(c) == c \in {" ", "\t", "\n"}

\* str.lower on one character
LowerOf == [c \in {UPPER[i] : i \in DOMAIN UPPER} |->
               LOWER[CHOOSE i \in DOMAIN UPPER : UPPER[i] = c]]

LowerChar(c) == IF c \in DOMAIN LowerOf THEN LowerOf[c] ELSE c

Lower(s) == SubSeq([i \in DOMAIN s |-> LowerChar(s[i])], 1, Len(s))

\* F applied to the value of v, which is computed once
Once(v, F(_)) == CHOOSE r \in {F(x) : x \in {v}} : TRUE

\* s[a..b] as a string, empty when b < a
Sub(s, a, b) == IF b < a THEN <<>> ELSE SubSeq(s, a, b)

\* \b between s[i] and s[i+1] (i in 0..Len(s)); outside the string is non-word
Boundary(s, i) ==
    LET before == i >= 1 /\ IsWord(s[i])
        after  == i < Len(s) /\ IsWord(s[i + 1])
    IN  before # after

AllSpace(s) == \A i \in DOMAIN s : IsSpace(s[i])

\* `query and query.strip()`
NonBlank(s) == \E i \in DOMAIN s : ~IsSpace(s[i])

---------------------------------------------------------------------------
(* The router's regular expressions.  XAt(s, p, e) says that the pattern   *)
(* matches exactly s[p..e]; re.search returns the leftmost start, and for  *)
(* these patterns (greedy quantifiers, a closing \b) the longest match     *)
(* from that start.                                                        *)

\* \d+(?:\.\d+){k,} with k >= minDots
DottedNum(t, minDots) ==
    /\ Len(t) >= 1
    /\ \A i \in DOMAIN t : IsDigit(t[i]) \/ t[i] = "."
    /\ IsDigit(t[1]) /\ IsDigit(t[Len(t)])
    /\ \A i \in 1..(Len(t) - 1) : ~(t[i] = "." /\ t[i + 1] = ".")
    /\ Cardinality({i \in DOMAIN t : t[i] = "."}) >= minDots

AllDigits(t) == Len(t) >= 1 /\ \A i \in DOMAIN t : IsDigit(t[i])

\* the matches <<p, e>> of a pattern in s, and re.search's choice among them
Matches(s, At(_, _, _)) ==
    {m \in (1..Len(s)) \X (1..Len(s)) : m[1] <= m[2] /\ At(s, m[1], m[2])}

\* the leftmost start, and the longest match from it
LeftmostLongest(ms) ==
    LET p == CHOOSE p \in {m[1] : m \in ms} : \A m \in ms : p <= m[1]
        e == CHOOSE e \in {m[2] : m \in {x \in ms : x[1] = p}} :
                 \A m \in ms : m[1] = p => m[2] <= e
    IN  <<p, e>>

\* the set of matches is computed once
Search(s, At(_, _, _)) ==
    CHOOSE r \in {IF ms = {} THEN None ELSE LeftmostLongest(ms) :
                      ms \in {Matches(s, At)}} : TRUE

\* CODE_PATTERN  \b(\d+(?:\.\d+)+)\b
CodeAt(s, p, e) ==
    /\ Boundary(s, p - 1) /\ Boundary(s, e)
    /\ DottedNum(Sub(s, p, e), 1)

SECTION_WORDS == { <<"s", "e", "c", "t", "i", "o", "n">>,
                   <<"b", "ö", "l", "ü", "m">>,
                   <<"m", "a", "d", "d", "e">> }

\* SECTION_PATTERN  \b(?:section|bölüm|madde)\s*(\d+(?:\.\d+)*)\b  re.I
\* g is where group 1 starts
SectionGroupAt(s, p, g, e) ==
    /\ Boundary(s, p - 1) /\ Boundary(s, e)
    /\ \E w \in SECTION_WORDS :
          /\ p + Len(w) <= g
          /\ Lower(Sub(s, p, p + Len(w) - 1)) = w
          /\ AllSpace(Sub(s, p + Len(w), g - 1))
    /\ g <= e
    /\ DottedNum(Sub(s, g, e), 0)

SectionAt(s, p, e) == \E g \in p..e : SectionGroupAt(s, p, g, e)

\* group(1) of a SECTION_PATTERN match <<p, e>>
SectionGroup(s, m) ==
    LET g == CHOOSE g \in m[1]..m[2] : SectionGroupAt(s, m[1], g, m[2])
    IN  Sub(s, g, m[2])

\* \bX\.?Y\.?\s*(\d+)\b  re.I, for RG_PATTERN (x, y = r, g) and AE_PATTERN
AbbrevAt(s, p, e, x, y) ==
    /\ Boundary(s, p - 1) /\ Boundary(s, e)
    /\ \E a \in p..e, b \in p..e :
          \* a: index of Y, b: last index of the abbreviation
          /\ LowerChar(s[p]) = x
          /\ \/ a = p + 1
             \/ a = p + 2 /\ s[p + 1] = "."
          /\ a <= e /\ LowerChar(s[a]) = y
          /\ \/ b = a
             \/ b = a + 1 /\ b <= e /\ s[b] = "."
          /\ \E g \in (b + 1)..e :
                /\ AllSpace(Sub(s, b + 1, g - 1))
                /\ AllDigits(Sub(s, g, e))

RgAt(s, p, e) == AbbrevAt(s, p, e, "r", "g")

AeAt(s, p, e) == AbbrevAt(s, p, e, "a", "e")

ROMAN == {"i", "v", "x", "l", "c", "d", "m"}

\* EK_PATTERN  \bEK\s*([IVXLCDM]+)\b  re.I
EkAt(s, p, e) ==
    /\ Boundary(s, p - 1) /\ Boundary(s, e)
    /\ p + 2 <= e
    /\ LowerChar(s[p]) = "e" /\ LowerChar(s[p + 1]) = "k"
    /\ \E g \in (p + 2)..e :
          /\ AllSpace(Sub(s, p + 2, g - 1))
          /\ \A i \in g..e : LowerChar(s[i]) \in ROMAN

\* DATE_PATTERN  \b\d{2}\.\d{2}\.\d{4}\b
DateAt(s, p, e) ==
    /\ Boundary(s, p - 1) /\ Boundary(s, e)
    /\ e = p + 9
    /\ \A i \in p..e : IF i \in {p + 2, p + 5} THEN s[i] = "." ELSE IsDigit(s[i])

---------------------------------------------------------------------------
(* app/agent/nodes/router.py *)

\* fault: the standalone code is looked for before the section reference
_detect_code_BareFirst(query) ==
    Once(Search(query, CodeAt), LAMBDA cm :
        IF cm # None THEN Sub(query, cm[1], cm[2])
        ELSE Once(Search(query, SectionAt), LAMBDA sm :
                 IF sm # None THEN SectionGroup(query, sm) ELSE None))

\* an explicit section reference first, then a standalone code
_detect_code(query) ==
    Once(Search(query, SectionAt), LAMBDA sm :
        IF sm # None THEN SectionGroup(query, sm)
        ELSE Once(Search(query, CodeAt), LAMBDA cm :
                 IF cm # None THEN Sub(query, cm[1], cm[2]) ELSE None))

LABEL_RG == <<"R", ".", "G", ".">>

LABEL_AE == <<"A", ".", "E", ".">>

LABEL_EK == <<"E", "K">>

LABEL_DATE == <<"d", "a", "t", "e">>

\* f"{label} {match.group(0)}"
Labelled(label, s, m) == label \o <<" ">> \o Sub(s, m[1], m[2])

\* fault: the list of patterns starts with AE_PATTERN
_detect_metadata_AeFirst(query) ==
    Once(<<Search(query, RgAt), Search(query, AeAt),
           Search(query, EkAt), Search(query, DateAt)>>, LAMBDA m :
        IF m[2] # None THEN Labelled(LABEL_AE, query, m[2])
        ELSE IF m[1] # None THEN Labelled(LABEL_RG, query, m[1])
        ELSE IF m[3] # None THEN Labelled(LABEL_EK, query, m[3])
        ELSE IF m[4] # None THEN Labelled(LABEL_DATE, query, m[4])
        ELSE None)

\* the first pattern of the list that matches, in the order of the list
_detect_metadata(query) ==
    Once(<<Search(query, RgAt), Search(query, AeAt),
           Search(query, EkAt), Search(query, DateAt)>>, LAMBDA m :
        IF m[1] # None THEN Labelled(LABEL_RG, query, m[1])
        ELSE IF m[2] # None THEN Labelled(LABEL_AE, query, m[2])
        ELSE IF m[3] # None THEN Labelled(LABEL_EK, query, m[3])
        ELSE IF m[4] # None THEN Labelled(LABEL_DATE, query, m[4])
        ELSE None)

\* state.get(key, default)
Get(d, key, default) == IF key \in DOMAIN d THEN d[key] ELSE default

\* query and query not in query_history
route_history(query, query_history) ==
    IF query # <<>> /\ ~(\E i \in DOMAIN query_history : query_history[i] = query)
    THEN Append(query_history, query)
    ELSE query_history

RouterResult(query_type, code, metadata, reasoning) ==
    [query_type |-> query_type, extracted_code |-> code,
     extracted_metadata |-> metadata, reasoning |-> reasoning]

\* the dict route_query returns
route_query(st) ==
    LET query == Get(st, "query", <<>>)
        query_history == route_history(query, Get(st, "query_history", <<>>))
        out(query_type, result) ==
            [query |-> query, query_type |-> query_type,
             router_result |-> result, query_history |-> query_history]
    IN  Once(_detect_code(query), LAMBDA detected_code :
        IF detected_code # None
        THEN out("code", RouterResult("code", detected_code, None,
                                      "Detected regulation code pattern"))
        ELSE Once(_detect_metadata(query), LAMBDA detected_metadata :
        IF detected_metadata # None
        THEN out("metadata", RouterResult("metadata", None, detected_metadata,
                                          "Detected metadata pattern"))
        ELSE out("vector", RouterResult("vector", None, None,
                     "Natural language query - using semantic search"))))

---------------------------------------------------------------------------
(* Exact rationals <<n, d>>, d > 0, in lowest terms *)

RECURSIVE Gcd(_, _)
Gcd(a, b) ==
    Once(<<a, b>>, LAMBDA p : IF p[2] = 0 THEN p[1] ELSE Gcd(p[2], p[1] % p[2]))

Rat(n, d) == LET g == Gcd(IF n < 0 THEN -n ELSE n, d) IN <<n \div g, d \div g>>

RAdd(a, b) == Rat(a[1] * b[2] + b[1] * a[2], a[2] * b[2])

RMul(a, b) == Rat(a[1] * b[1], a[2] * b[2])

RLt(a, b) == a[1] * b[2] < b[1] * a[2]

RMax(a, b) == IF RLt(a, b) THEN b ELSE a

RMin(a, b) == IF RLt(b, a) THEN b ELSE a

Zero == <<0, 1>>

One == <<1, 1>>

Half == <<1, 2>>

---------------------------------------------------------------------------
(* The document store: the rows of reg_doc_chunk JOIN reg_doc.  Row id     *)
(* belongs to document ((id - 1) % 3) + 1; the corpus of a run is the set  *)
(* of row ids the store holds.                                             *)

RECURSIVE Rep(_, _)
Rep(s, n) == IF n = 0 THEN <<>> ELSE s \o Rep(s, n - 1)

DocCodes == << <<"5", ".", "1", ".", "2">>, <<"5", ".", "1">>, <<"6", ".", "3">> >>

DocUrls == << <<"u", "5">>, None, <<"u", "6">> >>

\* 221, 49 and 50 characters
RowContents ==
    << Rep(<<"e", "x", "a", "m", " ", "a", "p", "p", "e", "a", "l", " ", "r", "u", "l", "e", " ">>, 13),
       Rep(<<"F", "e", "e", "s", " ", "d", "u", "e", " ">>, 5) \o <<"n", "o", "w", ".">>,
       Rep(<<"E", "x", "a", "m", " ", "r", "u", "l", "e", "s">>, 5) >>

RowOrdinals == <<1, 2, 1>>

ChunkRow(id) ==
    LET doc == ((id - 1) % 3) + 1
    IN  [chunk_id |-> id, reg_doc_id |-> doc, reg_code |-> DocCodes[doc],
         url |-> DocUrls[doc], heading |-> None, content |-> RowContents[doc],
         ordinal |-> RowOrdinals[doc] + 2 * ((id - 1) \div 3)]

\* the order of two strings of digits and dots under ORDER BY
CharOrd(c) == IF c = "." THEN 0 ELSE 1 + (CHOOSE n \in 0..9 : ToString(n) = c)

RECURSIVE StrLess(_, _)
StrLess(a, b) ==
    Once(<<a, b>>, LAMBDA x :
        IF x[2] = <<>> THEN FALSE
        ELSE IF x[1] = <<>> THEN TRUE
        ELSE IF x[1][1] # x[2][1] THEN CharOrd(x[1][1]) < CharOrd(x[2][1])
        ELSE StrLess(Tail(x[1]), Tail(x[2])))

\* the rows of a set of ids in the order `before` gives (a strict total order)
Ordered(ids, before(_, _)) ==
    LET pos(i) == 1 + Cardinality({j \in ids : before(j, i)})
    IN  [k \in 1..Cardinality(ids) |-> ChunkRow(CHOOSE i \in ids : pos(i) = k)]

\* seq[:n]
Take(seq, n) == IF Len(seq) <= n THEN seq ELSE SubSeq(seq, 1, n)

\* code.startswith(prefix)
StartsWith(s, prefix) == Len(s) >= Len(prefix) /\ SubSeq(s, 1, Len(prefix)) = prefix

ByOrdinal(i, j) ==
    \/ ChunkRow(i).ordinal < ChunkRow(j).ordinal
    \/ ChunkRow(i).ordinal = ChunkRow(j).ordinal /\ i < j

ByCodeOrdinal(i, j) ==
    \/ StrLess(ChunkRow(i).reg_code, ChunkRow(j).reg_code)
    \/ ChunkRow(i).reg_code = ChunkRow(j).reg_code /\ ByOrdinal(i, j)

TOP_K_VECTOR == 20

TOP_K_FTS == 20

TOP_K_FINAL == 12

RRF_K == 60

\* WHERE d.code = :code OR d.code LIKE :code || '.%'  ORDER BY c.ordinal LIMIT
LookupByCode(ids, code) ==
    Take(Ordered({i \in ids : \/ ChunkRow(i).reg_code = code
                              \/ StartsWith(ChunkRow(i).reg_code, code \o <<".">>)},
                 ByOrdinal),
         TOP_K_FINAL)

\* ORDER BY d.code, c.ordinal LIMIT
SampleAll(ids, limit) == Take(Ordered(ids, ByCodeOrdinal), limit)

MaxHits == 2

\* the sequences of at most MaxHits distinct rows of the corpus
HitLists(ids) ==
    UNION { {h \in [1..k -> ids] : \A a, b \in 1..k : a # b => h[a] # h[b]}
            : k \in 0..MaxHits }

\* the cosine distances and the ts_rank values the store reports
Distances == {Zero, One}

FtsRanks == {Zero, <<1, 20>>}

\* what vectorSearch can answer: embedded rows, nearest first
VecAnswers(ids) ==
    { [k \in DOMAIN h |-> [row |-> ChunkRow(h[k]), vec_distance |-> d[k]]] :
         <<h, d>> \in { x \in UNION { {hh} \X [DOMAIN hh -> Distances]
                                      : hh \in HitLists(ids) } :
                         \A a, b \in DOMAIN x[1] :
                             a < b => ~RLt(x[2][b], x[2][a]) } }

\* what textSearch can answer: matching rows, best rank first
FtsAnswers(ids) ==
    { [k \in DOMAIN h |-> [row |-> ChunkRow(h[k]), fts_score |-> r[k]]] :
         <<h, r>> \in { x \in UNION { {hh} \X [DOMAIN hh -> FtsRanks]
                                      : hh \in HitLists(ids) } :
                         \A a, b \in DOMAIN x[1] :
                             a < b => ~RLt(x[2][a], x[2][b]) } }

---------------------------------------------------------------------------
(* app/agent/nodes/retrieve.py: the search functions on the rows fetched   *)

RetrievedChunk(row, score_vec, score_fts, rrf_rank) ==
    [chunk_id |-> row.chunk_id, reg_doc_id |-> row.reg_doc_id,
     reg_code |-> row.reg_code, url |-> row.url, heading |-> row.heading,
     content |-> row.content, score_vec |-> score_vec,
     score_fts |-> score_fts, rrf_rank |-> rrf_rank]

_search_by_code(rows) ==
    [k \in DOMAIN rows |-> RetrievedChunk(rows[k], One, One, One)]

\* 1.0 / (1.0 + d) if d else 0.0
Similarity(d) == IF d # Zero THEN Rat(d[2], d[2] + d[1]) ELSE Zero

\* 1.0 / (RRF_K + i + 1), i counted from 0
RankScore(i) == Rat(1, RRF_K + i + 1)

_search_vector(hits) ==
    [k \in DOMAIN hits |->
        RetrievedChunk(hits[k].row, Similarity(hits[k].vec_distance), Zero,
                       RankScore(k - 1))]

\* float(row.fts_score) if row.fts_score else 0.5
FtsScore(r) == IF r # Zero THEN r ELSE Half

_search_text_only(hits) ==
    [k \in DOMAIN hits |->
        RetrievedChunk(hits[k].row, Zero, FtsScore(hits[k].fts_score),
                       FtsScore(hits[k].fts_score))]

\* fault: the sampled chunks are given no score at all
_search_all_chunks_Unscored(rows) ==
    [k \in DOMAIN rows |-> RetrievedChunk(rows[k], Zero, Zero, Zero)]

_search_all_chunks(rows) ==
    [k \in DOMAIN rows |-> RetrievedChunk(rows[k], Zero, Zero, Half)]

\* the 0-based rank of a chunk id in a result list, 999 when it is absent
RankOf(list, id) ==
    IF \E k \in DOMAIN list : list[k].chunk_id = id
    THEN (CHOOSE k \in DOMAIN list : list[k].chunk_id = id) - 1
    ELSE 999

ChunkOf(list, id) == list[CHOOSE k \in DOMAIN list : list[k].chunk_id = id]

\* fault: the full-text term is left out of the sum
rrf_score_VecOnly(vec, fts, id) ==
    IF RankOf(vec, id) < 999 THEN RankScore(RankOf(vec, id)) ELSE Zero

rrf_score(vec, fts, id) ==
    RAdd(IF RankOf(vec, id) < 999 THEN RankScore(RankOf(vec, id)) ELSE Zero,
         IF RankOf(fts, id) < 999 THEN RankScore(RankOf(fts, id)) ELSE Zero)

\* fault: the data of the full-text hit is preferred
chunk_data_FtsFirst(vec, fts, id) ==
    IF RankOf(fts, id) < 999 THEN ChunkOf(fts, id) ELSE ChunkOf(vec, id)

\* the chunk data of whichever search found it, the vector search first
chunk_data(vec, fts, id) ==
    IF RankOf(vec, id) < 999 THEN ChunkOf(vec, id) ELSE ChunkOf(fts, id)

\* iterating a set of small ints visits them in increasing order; the sort
\* by score is stable, so equal scores stay in that order
SetOrder(i, j) == i < j

\* fault: no sort, the ids stay in the order the set gave them
scored_chunks_AsFound(vec, fts) ==
    LET all_ids == {vec[k].chunk_id : k \in DOMAIN vec}
                       \cup {fts[k].chunk_id : k \in DOMAIN fts}
        pos(i) == 1 + Cardinality({j \in all_ids : SetOrder(j, i)})
    IN  [k \in 1..Cardinality(all_ids) |-> CHOOSE i \in all_ids : pos(i) = k]

\* scored_chunks after scored_chunks.sort(key=score, reverse=True)
scored_chunks(vec, fts) ==
    LET all_ids == {vec[k].chunk_id : k \in DOMAIN vec}
                       \cup {fts[k].chunk_id : k \in DOMAIN fts}
        ahead(j, i) == \/ RLt(rrf_score(vec, fts, i), rrf_score(vec, fts, j))
                       \/ /\ rrf_score(vec, fts, i) = rrf_score(vec, fts, j)
                          /\ SetOrder(j, i)
        pos(i) == 1 + Cardinality({j \in all_ids : ahead(j, i)})
    IN  [k \in 1..Cardinality(all_ids) |-> CHOOSE i \in all_ids : pos(i) = k]

_search_hybrid(vec, fts) ==
    Once(Take(scored_chunks(vec, fts), TOP_K_FINAL), LAMBDA top :
        [k \in DOMAIN top |->
            [chunk_data(vec, fts, top[k]) EXCEPT
                !.rrf_rank = rrf_score(vec, fts, top[k])]])

---------------------------------------------------------------------------
(* app/agent/nodes/grade.py *)

MIN_CONTENT_LENGTH == 50

stop_words ==
    { <<"t", "h", "e">>, <<"a">>, <<"a", "n">>, <<"i", "s">>,
      <<"a", "r", "e">>, <<"w", "a", "s">>, <<"w", "e", "r", "e">>,
      <<"b", "e">>, <<"b", "e", "e", "n">>, <<"w", "h", "a", "t">>,
      <<"h", "o", "w">>, <<"w", "h", "e", "n">>,
      <<"w", "h", "e", "r", "e">>, <<"w", "h", "i", "c", "h">>,
      <<"w", "h", "o">>, <<"w", "h", "y">>, <<"f", "o", "r">>,
      <<"o", "f">>, <<"t", "o">>, <<"i", "n">>, <<"o", "n">>,
      <<"a", "t">>, <<"b", "y">>, <<"w", "i", "t", "h">>,
      <<"a", "n", "d">>, <<"o", "r">> }

\* str.split(): the maximal runs of non-space characters, in order
RECURSIVE Split(_)
Split(s) ==
    Once(s, LAMBDA t :
        IF t = <<>> THEN <<>>
        ELSE IF IsSpace(t[1]) THEN Split(Tail(t))
        ELSE Once({i \in DOMAIN t : IsSpace(t[i])}, LAMBDA stops :
             Once(IF stops = {} THEN Len(t)
                  ELSE (CHOOSE i \in stops : \A j \in stops : i <= j) - 1,
                  LAMBDA e : <<Sub(t, 1, e)>> \o Split(Sub(t, e + 1, Len(t))))))

\* word in content
Contains(content, word) ==
    \E i \in 0..(Len(content) - Len(word)) :
        Sub(content, i + 1, i + Len(word)) = word

\* [w for w in query_lower.split() if len(w) > 2 and w not in stop_words]
query_words(query) ==
    SelectSeq(Split(Lower(query)), LAMBDA w : Len(w) > 2 /\ w \notin stop_words)

\* fault: a word counts when the content starts with it
matches_AtStart(words, content_lower) ==
    Cardinality({i \in DOMAIN words :
                    /\ Len(words[i]) <= Len(content_lower)
                    /\ Sub(content_lower, 1, Len(words[i])) = words[i]})

\* len(matches) of the words found in the content
matches(words, content_lower) ==
    Cardinality({i \in DOMAIN words : Contains(content_lower, words[i])})

_keyword_match_score(query, content) ==
    IF query = <<>> \/ content = <<>> THEN Zero
    ELSE Once(<<query_words(query), Lower(content)>>, LAMBDA w :
             IF w[1] = <<>> THEN Half
             ELSE Rat(matches(w[1], w[2]), Len(w[1])))

GradeResult(is_relevant, reason, confidence) ==
    [is_relevant |-> is_relevant, reason |-> reason, confidence |-> confidence]

\* fault: the scores of the vector and full-text search are not trusted
_heuristic_grade_NoTrust(query, chunk) ==
    IF Len(chunk.content) < MIN_CONTENT_LENGTH
    THEN GradeResult(FALSE, <<"Content too short">>, <<9, 10>>)
    ELSE Once(_keyword_match_score(query, chunk.content),
              LAMBDA keyword_score :
         LET retrieval_score == RMax(RMax(chunk.score_vec, chunk.score_fts),
                                     chunk.rrf_rank)
             combined_score == RAdd(RMul(keyword_score, <<6, 10>>),
                                    RMul(retrieval_score, <<4, 10>>))
             lenient == \/ RLt(<<1, 10>>, combined_score)
                        \/ RLt(<<2, 10>>, keyword_score)
                        \/ RLt(<<3, 10>>, retrieval_score)
         IN  GradeResult(lenient,
                         <<"Keyword", keyword_score, "Retrieval", retrieval_score>>,
                         RMin(RAdd(combined_score, <<3, 10>>), One)))

\* fault: no check of the content length
_heuristic_grade_NoLengthCheck(query, chunk) ==
    Once(_keyword_match_score(query, chunk.content), LAMBDA keyword_score :
         LET retrieval_score == RMax(RMax(chunk.score_vec, chunk.score_fts),
                                     chunk.rrf_rank)
             combined_score == RAdd(RMul(keyword_score, <<6, 10>>),
                                    RMul(retrieval_score, <<4, 10>>))
             lenient == \/ RLt(<<1, 10>>, combined_score)
                        \/ RLt(<<2, 10>>, keyword_score)
                        \/ RLt(<<3, 10>>, retrieval_score)
             trusted == RLt(Zero, chunk.score_vec) \/ RLt(Zero, chunk.score_fts)
         IN  GradeResult(lenient \/ trusted,
                         <<"Keyword", keyword_score, "Retrieval", retrieval_score>>,
                         RMin(RAdd(combined_score, <<3, 10>>), One)))

\* fault: the confidence is not capped at 1.0
_heuristic_grade_Uncapped(query, chunk) ==
    IF Len(chunk.content) < MIN_CONTENT_LENGTH
    THEN GradeResult(FALSE, <<"Content too short">>, <<9, 10>>)
    ELSE Once(_keyword_match_score(query, chunk.content),
              LAMBDA keyword_score :
         LET retrieval_score == RMax(RMax(chunk.score_vec, chunk.score_fts),
                                     chunk.rrf_rank)
             combined_score == RAdd(RMul(keyword_score, <<6, 10>>),
                                    RMul(retrieval_score, <<4, 10>>))
             lenient == \/ RLt(<<1, 10>>, combined_score)
                        \/ RLt(<<2, 10>>, keyword_score)
                        \/ RLt(<<3, 10>>, retrieval_score)
             trusted == RLt(Zero, chunk.score_vec) \/ RLt(Zero, chunk.score_fts)
         IN  GradeResult(lenient \/ trusted,
                         <<"Keyword", keyword_score, "Retrieval", retrieval_score>>,
                         RAdd(combined_score, <<3, 10>>)))

\* the reason string is kept as the label and the two scores it formats
_heuristic_grade(query, chunk) ==
    IF Len(chunk.content) < MIN_CONTENT_LENGTH
    THEN GradeResult(FALSE, <<"Content too short">>, <<9, 10>>)
    ELSE Once(_keyword_match_score(query, chunk.content),
              LAMBDA keyword_score :
         LET retrieval_score == RMax(RMax(chunk.score_vec, chunk.score_fts),
                                     chunk.rrf_rank)
             combined_score == RAdd(RMul(keyword_score, <<6, 10>>),
                                    RMul(retrieval_score, <<4, 10>>))
             lenient == \/ RLt(<<1, 10>>, combined_score)
                        \/ RLt(<<2, 10>>, keyword_score)
                        \/ RLt(<<3, 10>>, retrieval_score)
             trusted == RLt(Zero, chunk.score_vec) \/ RLt(Zero, chunk.score_fts)
         IN  GradeResult(lenient \/ trusted,
                         <<"Keyword", keyword_score, "Retrieval", retrieval_score>>,
                         RMin(RAdd(combined_score, <<3, 10>>), One)))

\* the dict grade_documents returns
grade_documents(st) ==
    LET query == Get(st, "query", <<>>)
        retrieval == Get(st, "retrieval", <<>>)
    IN  Once(SubSeq([k \in DOMAIN retrieval |->
                        <<retrieval[k], _heuristic_grade(query, retrieval[k])>>],
                    1, Len(retrieval)),
             LAMBDA graded :
        LET relevant == SelectSeq(graded, LAMBDA g : g[2].is_relevant)
        IN  [query |-> query,
             graded_chunks |-> graded,
             relevant_chunks |-> [k \in DOMAIN relevant |-> relevant[k][1]]])

---------------------------------------------------------------------------
(* app/agent/nodes/generate.py *)

CONTEXT_CHUNKS == 8

EXCERPT_LENGTH == 200

ELLIPSIS == <<".", ".", ".">>

GenerationResult(answer, citations, confidence, has_sufficient_evidence) ==
    [answer |-> answer, citations |-> citations, confidence |-> confidence,
     has_sufficient_evidence |-> has_sufficient_evidence]

\* the findings line of the template
Findings(retrieval) ==
    IF retrieval # <<>>
    THEN <<"Found chunks, but none were relevant", Len(retrieval)>>
    ELSE <<"No matching documents were found in the database.">>

\* fault: the template answer is given a confidence of its own
_build_insufficient_response_HalfSure(st) ==
    GenerationResult([template |-> "INSUFFICIENT_EVIDENCE"], <<>>, Half, FALSE)

\* INSUFFICIENT_EVIDENCE_TEMPLATE.format(...), kept as its four arguments;
\* the codes are a set (list(set(...)) has no fixed order)
_build_insufficient_response(st) ==
    LET query_history == Get(st, "query_history", <<>>)
        query_type == Get(st, "query_type", "vector")
        retrieval == Get(st, "retrieval", <<>>)
    IN  GenerationResult(
            [template |-> "INSUFFICIENT_EVIDENCE",
             query_type |-> query_type,
             queries |-> Take(query_history, 3),
             codes |-> {retrieval[k].reg_code : k \in DOMAIN retrieval},
             findings |-> Findings(retrieval)],
            <<>>, Zero, FALSE)

\* fault: the excerpt is cut so that it has 200 characters with its ellipsis
Excerpt_Within(content) ==
    IF Len(content) > EXCERPT_LENGTH
    THEN Take(content, EXCERPT_LENGTH - Len(ELLIPSIS)) \o ELLIPSIS
    ELSE content

\* chunk.content[:200] + "..." if len(chunk.content) > 200 else chunk.content
Excerpt(content) ==
    IF Len(content) > EXCERPT_LENGTH
    THEN Take(content, EXCERPT_LENGTH) \o ELLIPSIS
    ELSE content

Citation(chunk) ==
    [reg_code |-> chunk.reg_code, url |-> chunk.url,
     chunk_id |-> chunk.chunk_id, excerpt |-> Excerpt(chunk.content)]

\* relevant_chunks if relevant_chunks else retrieval
chunks_to_use(st) ==
    IF Get(st, "relevant_chunks", <<>>) # <<>>
    THEN Get(st, "relevant_chunks", <<>>)
    ELSE Get(st, "retrieval", <<>>)

\* fault: every chunk is cited, not the first CONTEXT_CHUNKS
SuccessResult_CitesAll(used, answer) ==
    GenerationResult([text |-> answer],
                     [k \in DOMAIN used |-> Citation(used[k])],
                     IF Len(used) >= 3 THEN <<8, 10>> ELSE <<6, 10>>,
                     TRUE)

\* the result built when llm.ainvoke returned `answer`
SuccessResult(used, answer) ==
    LET cited == Take(used, CONTEXT_CHUNKS)
    IN  GenerationResult([text |-> answer],
                         [k \in DOMAIN cited |-> Citation(cited[k])],
                         IF Len(used) >= 3 THEN <<8, 10>> ELSE <<6, 10>>,
                         TRUE)

\* fault: the except clause keeps the confidence of the success path
FailureResult_Confident(e) ==
    GenerationResult([error |-> e], <<>>, <<6, 10>>, FALSE)

\* the result built in `except Exception as e`
FailureResult(e) ==
    GenerationResult([error |-> e], <<>>, Zero, FALSE)

\* what the completion service can answer, and the errors it can raise
LlmAnswers == {<<"answer text">>}

LlmErrors == {<<"completion timed out">>}

\* fault: the except clause reports the error and builds no result
generate_answer_ErrorOnly(st, outcome) ==
    IF chunks_to_use(st) = <<>>
    THEN [generation |-> _build_insufficient_response(st)]
    ELSE IF outcome \in LlmAnswers
    THEN [generation |-> SuccessResult(chunks_to_use(st), outcome)]
    ELSE [error |-> outcome]

\* fault: the except clause does not record the error in the state
generate_answer_ErrorUnrecorded(st, outcome) ==
    IF chunks_to_use(st) = <<>>
    THEN [generation |-> _build_insufficient_response(st)]
    ELSE IF outcome \in LlmAnswers
    THEN [generation |-> SuccessResult(chunks_to_use(st), outcome)]
    ELSE [generation |-> FailureResult(outcome)]

\* the dict generate_answer returns; outcome is the completion service's
generate_answer(st, outcome) ==
    IF chunks_to_use(st) = <<>>
    THEN [generation |-> _build_insufficient_response(st)]
    ELSE IF outcome \in LlmAnswers
    THEN [generation |-> SuccessResult(chunks_to_use(st), outcome)]
    ELSE [generation |-> FailureResult(outcome), error |-> outcome]

---------------------------------------------------------------------------
(* app/agent/graph.py *)

END == "END"

\* set_entry_point and add_edge of create_graph
EntryPoint == "route"

\* fault: the edge after grade goes to END instead
Successor_GradeEnds(n) ==
    CASE n = "route"    -> "retrieve"
      [] n = "retrieve" -> "grade"
      [] n = "grade"    -> END
      [] n = "generate" -> END

Successor(n) ==
    CASE n = "route"    -> "retrieve"
      [] n = "retrieve" -> "grade"
      [] n = "grade"    -> "generate"
      [] n = "generate" -> END

\* StateGraph(dict): the state is one value, and what a node returns is the
\* next state (the nodes re-emit "query" for that reason)
Update(st, out) == out

\* initial_state of run_agent
initial_state(query, thread_id) ==
    [query |-> query, thread_id |-> thread_id, query_history |-> <<query>>,
     retrieval |-> <<>>, graded_chunks |-> <<>>, relevant_chunks |-> <<>>,
     search_iterations |-> 0, max_iterations |-> 1,
     generation |-> Null, error |-> None]

---------------------------------------------------------------------------
(* Inputs *)

\* the queries submitted to a full run
RunQueries ==
    { <<>>,
      <<" ">>,
      <<"s", "e", "c", "t", "i", "o", "n", " ", "5", ".", "1">>,
      <<"6", ".", "3", ".", "4">>,
      <<"R", ".", "G", ".", " ", "6", "2">>,
      <<"E", "x", "a", "m", " ", "f", "e", "e", "s">> }

\* the pieces the router's queries are made of
Segments ==
    { <<"s", "e", "c", "t", "i", "o", "n", " ", "5", ".", "1">>,
      <<"6", ".", "3", ".", "4", " ">>,
      <<"M", "a", "d", "d", "e", " ", "7", " ">>,
      <<"R", ".", "G", ".", " ", "6", "2">>,
      <<" ", "a", "e", "1", "5", " ">>,
      <<" ", "E", "K", " ", "I", "V">>,
      <<"0", "1", ".", "0", "2", ".", "2", "0", "2", "4">>,
      <<"e", "x", "a", "m", " ">>,
      <<" ">>,
      <<"v", "1", ".", "2", ".", "3", " ">> }

MaxSegments == 2

RECURSIVE Concat(_)
Concat(ss) == IF ss = <<>> THEN <<>> ELSE Head(ss) \o Concat(Tail(ss))

RouterQueries ==
    {Concat(ss) : ss \in UNION {[1..k -> Segments] : k \in 0..MaxSegments}}

MaxChunks == 2

Corpora == {1..n : n \in 0..MaxChunks}

---------------------------------------------------------------------------
(* The workflow *)

Start(queries) ==
    /\ \E q \in queries : state = initial_state(q, None)
    /\ corpus \in Corpora
    /\ node = EntryPoint
    /\ visited = <<>>
    /\ pc = "idle"
    /\ chunks = <<>>
    /\ vec_chunks = <<>>
    /\ fts_chunks = <<>>
    /\ calls = <<>>
    /\ raised = FALSE
    /\ response = Null
    /\ other = Null

Init == Start(RunQueries)

\* a node that does not await ran: its dict is the next state
Ran(n, out) ==
    /\ state' = Update(state, out)
    /\ node' = Successor(n)
    /\ visited' = Append(visited, n)

Route ==
    /\ node = "route"
    /\ \E out \in {route_query(state)} : Ran("route", out)
    /\ UNCHANGED <<corpus, pc, chunks, vec_chunks, fts_chunks, calls, raised,
                 response, other>>

\* an external call returned n rows (ok), or raised
Called(op, ctx, ok, n) ==
    calls' = Append(calls, [op |-> op, ctx |-> ctx, ok |-> ok, n |-> n])

\* fault: no outer try, what the inner handler and the first all-chunks
\* query raise leaves retrieve_documents
Handler_NoOuterTry(at) ==
    CASE at \in {"embed", "vector", "text_hybrid"} -> "text_only"
      [] at \in {"code", "text_only", "all"}       -> "escape"
      [] at = "all_again"                          -> "empty"

\* fault: no inner try, a failure of the hybrid search goes to the outer
\* handler
Handler_NoInnerTry(at) ==
    CASE at \in {"embed", "vector", "text_hybrid", "code", "text_only", "all"}
             -> "all_again"
      [] at = "all_again" -> "empty"

\* fault: a failed vector search sends the hybrid search back to the
\* embedding call
Handler_EmbedsAgain(at) ==
    CASE at \in {"embed", "text_hybrid"}         -> "text_only"
      [] at = "vector"                           -> "embed"
      [] at \in {"code", "text_only", "all"}      -> "all_again"
      [] at = "all_again"                        -> "empty"

\* where retrieve_documents continues when the call awaited at `at` raises:
\* the inner except (FTS only), the outer except (all chunks once more), the
\* innermost except (chunks = [])
Handler(at) ==
    CASE at \in {"embed", "vector", "text_hybrid"} -> "text_only"
      [] at \in {"code", "text_only", "all"}       -> "all_again"
      [] at = "all_again"                          -> "empty"

\* the dict retrieve_documents returns
retrieve_return(st, result) ==
    [query |-> Get(st, "query", <<>>),
     retrieval |-> result,
     search_iterations |-> Get(st, "search_iterations", 0) + 1]

\* `return`: the locals are gone
Return(result) ==
    /\ Ran("retrieve", retrieve_return(state, result))
    /\ pc' = "idle"
    /\ chunks' = <<>>
    /\ UNCHANGED raised

\* fault: no `if not chunks`, the strategy's result is returned as it is
Got_AsItIs(result) == Return(result)

\* a strategy returned `result`: `if not chunks` falls back to all chunks
Got(result) ==
    IF result = <<>>
    THEN /\ pc' = "all"
         /\ chunks' = result
         /\ UNCHANGED <<state, node, visited, raised>>
    ELSE Return(result)

\* the call awaited at pc raised
Raised ==
    LET h == Handler(pc)
    IN  IF h = "escape"
        THEN /\ raised' = TRUE
             /\ node' = "ABORT"
             /\ UNCHANGED <<state, visited, pc, chunks>>
        ELSE IF h = "empty"
        THEN Return(<<>>)
        ELSE /\ pc' = h
             /\ UNCHANGED <<state, node, visited, chunks, raised>>

\* fault: no test of `query and query.strip()`, a blank query is embedded
FirstStrategy_EmbedsBlank(st) ==
    LET query_type == Get(st, "query_type", "vector")
        router_result == Get(st, "router_result", Null)
    IN  IF /\ query_type = "code"
           /\ router_result # Null
           /\ router_result.extracted_code # None
        THEN "code"
        ELSE "embed"

\* the strategy retrieve_documents starts with
FirstStrategy(st) ==
    LET query == Get(st, "query", <<>>)
        query_type == Get(st, "query_type", "vector")
        router_result == Get(st, "router_result", Null)
    IN  IF /\ query_type = "code"
           /\ router_result # Null
           /\ router_result.extracted_code # None
        THEN "code"
        ELSE IF NonBlank(query) THEN "embed"
        ELSE "all"

RetrieveEnter ==
    /\ node = "retrieve" /\ pc = "idle"
    /\ pc' = FirstStrategy(state)
    /\ chunks' = <<>>
    /\ vec_chunks' = <<>>
    /\ fts_chunks' = <<>>
    /\ UNCHANGED <<state, node, visited, corpus, calls, raised, response, other>>

CodeLookup ==
    /\ node = "retrieve" /\ pc = "code"
    /\ \/ \E rows \in {LookupByCode(corpus,
                                      state.router_result.extracted_code)} :
             /\ Called("code", "lookup", TRUE, Len(rows))
             /\ \E result \in {_search_by_code(rows)} : Got(result)
       \/ /\ Called("code", "lookup", FALSE, 0)
          /\ Raised
    /\ UNCHANGED <<corpus, vec_chunks, fts_chunks, response, other>>

EmbedQuery ==
    /\ node = "retrieve" /\ pc = "embed"
    /\ \/ /\ Called("embed", "hybrid", TRUE, 0)
          /\ pc' = "vector"
          /\ UNCHANGED <<state, node, visited, chunks, raised>>
       \/ /\ Called("embed", "hybrid", FALSE, 0)
          /\ Raised
    /\ UNCHANGED <<corpus, vec_chunks, fts_chunks, response, other>>

VectorSearch ==
    /\ node = "retrieve" /\ pc = "vector"
    /\ \/ /\ \E hits \in VecAnswers(corpus) :
                /\ Called("vector", "hybrid", TRUE, Len(hits))
                /\ vec_chunks' = _search_vector(Take(hits, TOP_K_VECTOR))
          /\ pc' = "text_hybrid"
          /\ UNCHANGED <<state, node, visited, chunks, raised>>
       \/ /\ Called("vector", "hybrid", FALSE, 0)
          /\ Raised
          /\ UNCHANGED vec_chunks
    /\ UNCHANGED <<corpus, fts_chunks, response, other>>

\* _search_text_only inside _search_hybrid; when it raises, the locals of
\* _search_hybrid are gone
TextSearchHybrid ==
    /\ node = "retrieve" /\ pc = "text_hybrid"
    /\ IF ~NonBlank(state.query)
       THEN /\ fts_chunks' = <<>>
            /\ pc' = "fuse"
            /\ UNCHANGED <<state, node, visited, chunks, vec_chunks, calls,
                           raised>>
       ELSE \/ /\ \E hits \in FtsAnswers(corpus) :
                     /\ Called("text", "hybrid", TRUE, Len(hits))
                     /\ fts_chunks' = _search_text_only(Take(hits, TOP_K_FTS))
               /\ pc' = "fuse"
               /\ UNCHANGED <<state, node, visited, chunks, vec_chunks, raised>>
            \/ /\ Called("text", "hybrid", FALSE, 0)
               /\ Raised
               /\ vec_chunks' = <<>>
               /\ UNCHANGED fts_chunks
    /\ UNCHANGED <<corpus, response, other>>

\* the fusion of _search_hybrid and its return to retrieve_documents
Fuse ==
    /\ node = "retrieve" /\ pc = "fuse"
    /\ \E result \in {_search_hybrid(vec_chunks, fts_chunks)} : Got(result)
    /\ vec_chunks' = <<>>
    /\ fts_chunks' = <<>>
    /\ UNCHANGED <<corpus, calls, response, other>>

\* _search_text_only in the inner except
TextSearchOnly ==
    /\ node = "retrieve" /\ pc = "text_only"
    /\ IF ~NonBlank(state.query)
       THEN /\ Got(<<>>)
            /\ UNCHANGED calls
       ELSE \/ \E hits \in FtsAnswers(corpus) :
                  /\ Called("text", "only", TRUE, Len(hits))
                  /\ \E result \in {_search_text_only(Take(hits, TOP_K_FTS))} :
                        Got(result)
            \/ /\ Called("text", "only", FALSE, 0)
               /\ Raised
    /\ UNCHANGED <<corpus, vec_chunks, fts_chunks, response, other>>

\* _search_all_chunks under `if not chunks`
AllChunks ==
    /\ node = "retrieve" /\ pc = "all"
    /\ \/ \E rows \in {SampleAll(corpus, TOP_K_FINAL)} :
             /\ Called("all", "fallback", TRUE, Len(rows))
             /\ \E result \in {_search_all_chunks(rows)} : Return(result)
       \/ /\ Called("all", "fallback", FALSE, 0)
          /\ Raised
    /\ UNCHANGED <<corpus, vec_chunks, fts_chunks, response, other>>

\* _search_all_chunks in the outer except
AllChunksAgain ==
    /\ node = "retrieve" /\ pc = "all_again"
    /\ \/ \E rows \in {SampleAll(corpus, TOP_K_FINAL)} :
             /\ Called("all", "except", TRUE, Len(rows))
             /\ \E result \in {_search_all_chunks(rows)} : Return(result)
       \/ /\ Called("all", "except", FALSE, 0)
          /\ Raised
    /\ UNCHANGED <<corpus, vec_chunks, fts_chunks, response, other>>

Grade ==
    /\ node = "grade"
    /\ \E out \in {grade_documents(state)} : Ran("grade", out)
    /\ UNCHANGED <<corpus, pc, chunks, vec_chunks, fts_chunks, calls, raised,
                 response, other>>

Generate ==
    /\ node = "generate"
    /\ IF chunks_to_use(state) = <<>>
       THEN /\ \E out \in {generate_answer(state, None)} : Ran("generate", out)
            /\ UNCHANGED calls
       ELSE \E outcome \in LlmAnswers \cup LlmErrors :
               /\ \E out \in {generate_answer(state, outcome)} :
                     Ran("generate", out)
               /\ Called("complete", "generate", outcome \in LlmAnswers, 0)
    /\ UNCHANGED <<corpus, pc, chunks, vec_chunks, fts_chunks, raised, response, other>>

\* what chat answers from the final state run_agent returned, or from the
\* exception it raised
chat(final_state, failed) ==
    LET generation == Get(final_state, "generation", Null)
    IN  IF failed
        THEN [status_code |-> 500, detail |-> "Agent error"]
        ELSE IF generation = Null
        THEN [status_code |-> 500,
              detail |-> "Agent did not produce a response"]
        ELSE [status_code |-> 200,
              answer |-> generation.answer,
              citations |-> generation.citations,
              confidence |-> generation.confidence,
              has_sufficient_evidence |-> generation.has_sufficient_evidence,
              query_history |-> Get(final_state, "query_history", <<>>),
              search_iterations |-> Get(final_state, "search_iterations", 0)]

Respond ==
    /\ node \in {END, "ABORT"}
    /\ response' = chat(state, raised)
    /\ node' = "DONE"
    /\ UNCHANGED <<state, visited, corpus, pc, chunks, vec_chunks, fts_chunks, calls,
                   raised, other>>

Next ==
    \/ Route
    \/ RetrieveEnter
    \/ CodeLookup
    \/ EmbedQuery
    \/ VectorSearch
    \/ TextSearchHybrid
    \/ Fuse
    \/ TextSearchOnly
    \/ AllChunks
    \/ AllChunksAgain
    \/ Grade
    \/ Generate
    \/ Respond

Spec == Init /\ [][Next]_vars

\* the runs on the corpora of at most MaxFairChunks chunks; every await of
\* a run completes or raises, and a runnable node is run
MaxFairChunks == 1

InitFair == Init /\ Cardinality(corpus) <= MaxFairChunks

FairSpec == InitFair /\ [][Next]_vars /\ WF_vars(Next)

\* the router alone, on the queries built from Segments
InitRouter == Start(RouterQueries) /\ corpus = 1..MaxChunks

SpecRouter == InitRouter /\ [][Route]_vars

\* the fusion alone, on result lists long enough for the cut at TOP_K_FINAL:
\* the store holds 2 * MaxWindow chunks, and each search returned a run of
\* MaxWindow consecutive ids, rotated by less than MaxTurns places, in
\* increasing or in decreasing order
MaxWindow == 7

MaxTurns == 3

Rotations(shift) ==
    LET at(r, k) == shift + 1 + ((r + k - 1) % MaxWindow)
    IN  UNION { { [k \in 1..MaxWindow |-> at(r, k)],
                  [k \in 1..MaxWindow |-> at(r, MaxWindow + 1 - k)] }
                : r \in 0..(MaxTurns - 1) }

FusionQuery == <<"E", "x", "a", "m", " ", "f", "e", "e", "s">>

InitFusion ==
    /\ state = Update(initial_state(FusionQuery, None),
                      route_query(initial_state(FusionQuery, None)))
    /\ corpus = 1..(2 * MaxWindow)
    /\ node = "retrieve"
    /\ visited = <<"route">>
    /\ pc = "fuse"
    /\ chunks = <<>>
    /\ \E v \in Rotations(0) \cup Rotations(MaxWindow) :
          vec_chunks = _search_vector(
              [k \in DOMAIN v |-> [row |-> ChunkRow(v[k]), vec_distance |-> One]])
    /\ \E f \in Rotations(0) \cup Rotations(3) \cup Rotations(MaxWindow) :
          fts_chunks = _search_text_only(
              [k \in DOMAIN f |-> [row |-> ChunkRow(f[k]), fts_score |-> <<1, 20>>]])
    /\ calls = << [op |-> "embed", ctx |-> "hybrid", ok |-> TRUE, n |-> 0],
                  [op |-> "vector", ctx |-> "hybrid", ok |-> TRUE,
                   n |-> MaxWindow],
                  [op |-> "text", ctx |-> "hybrid", ok |-> TRUE,
                   n |-> MaxWindow] >>
    /\ raised = FALSE
    /\ response = Null
    /\ other = Null

SpecFusion == InitFusion /\ [][Fuse]_vars

\* two runs on one event loop: the run that holds the loop is in the
\* variables, the other one waits at an await with its own dict and locals;
\* `other` holds its number, its locals, and the queries that the two calls
\* of run_agent were given
Locals ==
    [state |-> state, node |-> node, visited |-> visited, pc |-> pc,
     chunks |-> chunks, vec_chunks |-> vec_chunks, fts_chunks |-> fts_chunks,
     calls |-> calls, raised |-> raised, response |-> response]

\* fault: the two runs work on one state dict
Suspended_SharedState(run) == [run EXCEPT !.state = state]

\* what a run finds when it is resumed: the dict run_agent built for it and
\* the locals of its own coroutine
Suspended(run) == run

\* the event loop resumes the waiting run
Switch ==
    /\ other # Null
    /\ \E run \in {Suspended(other.run)} :
          /\ state' = run.state
          /\ node' = run.node
          /\ visited' = run.visited
          /\ pc' = run.pc
          /\ chunks' = run.chunks
          /\ vec_chunks' = run.vec_chunks
          /\ fts_chunks' = run.fts_chunks
          /\ calls' = run.calls
          /\ raised' = run.raised
          /\ response' = run.response
    /\ other' = [other EXCEPT !.id = 3 - other.id, !.run = Locals]
    /\ UNCHANGED corpus

MaxPairChunks == 1

\* the queries of the first and of the second run
PairQueries ==
    { << FusionQuery,
         <<"s", "e", "c", "t", "i", "o", "n", " ", "5", ".", "1">> >>,
      << <<"6", ".", "3", ".", "4">>, <<" ">> >> }

Fresh(query) ==
    [state |-> initial_state(query, None), node |-> EntryPoint,
     visited |-> <<>>, pc |-> "idle", chunks |-> <<>>, vec_chunks |-> <<>>,
     fts_chunks |-> <<>>, calls |-> <<>>, raised |-> FALSE, response |-> Null]

InitPair ==
    /\ corpus = 1..MaxPairChunks
    /\ \E qs \in PairQueries :
          /\ state = initial_state(qs[1], None)
          /\ other = [id |-> 2, run |-> Fresh(qs[2]), queries |-> qs]
    /\ node = EntryPoint
    /\ visited = <<>>
    /\ pc = "idle"
    /\ chunks = <<>>
    /\ vec_chunks = <<>>
    /\ fts_chunks = <<>>
    /\ calls = <<>>
    /\ raised = FALSE
    /\ response = Null

SpecPair == InitPair /\ [][Next \/ Switch]_vars

\* the grader alone, on what retrieve_documents can return for a query from
\* a store of MaxChunks + 1 chunks: each input is the list returned and the
\* calls that produced it
Ok(op, ctx, n) == [op |-> op, ctx |-> ctx, ok |-> TRUE, n |-> n]

Ko(op, ctx) == [op |-> op, ctx |-> ctx, ok |-> FALSE, n |-> 0]

GradeInputs(st) ==
    LET ids == 1..(MaxChunks + 1)
        all == _search_all_chunks(SampleAll(ids, TOP_K_FINAL))
        found == LookupByCode(ids, st.router_result.extracted_code)
    IN  CASE FirstStrategy(st) = "code" ->
                 { IF found # <<>>
                   THEN <<_search_by_code(found),
                          <<Ok("code", "lookup", Len(found))>> >>
                   ELSE <<all, <<Ok("code", "lookup", 0),
                                 Ok("all", "fallback", Len(all))>> >> }
          [] FirstStrategy(st) = "embed" ->
                 { <<_search_text_only(h),
                     <<Ko("embed", "hybrid"), Ok("text", "only", Len(h))>> >>
                   : h \in FtsAnswers(ids) \ {<<>>} }
                 \cup
                 { <<_search_hybrid(_search_vector(v), <<>>),
                     <<Ok("embed", "hybrid", 0), Ok("vector", "hybrid", Len(v)),
                       Ok("text", "hybrid", 0)>> >>
                   : v \in VecAnswers(ids) \ {<<>>} }
                 \cup
                 { <<all, <<Ko("embed", "hybrid"), Ok("text", "only", 0),
                           Ok("all", "fallback", Len(all))>> >> }
          [] OTHER -> { <<all, <<Ok("all", "fallback", Len(all))>> >> }

\* the queries graded: those of a full run, one made of stop words and a
\* short word, and one whose words are in the contents whole or as a part
GradeQueries ==
    RunQueries \cup
    { <<"W", "h", "a", "t", " ", "i", "s", " ", "i", "t">>,
      <<"E", "x", "a", "m", " ", "r", "u", "l", "e", " ", "o", "f", " ",
        "a", "p", "p", "e", "a", "l">> }

InitGrade ==
    /\ corpus = 1..(MaxChunks + 1)
    /\ \E q \in GradeQueries :
       \E st \in {Update(initial_state(q, None),
                         route_query(initial_state(q, None)))} :
       \E in \in GradeInputs(st) :
          /\ state = Update(st, retrieve_return(st, in[1]))
          /\ calls = in[2]
    /\ node = "grade"
    /\ visited = <<"route", "retrieve">>
    /\ pc = "idle"
    /\ chunks = <<>>
    /\ vec_chunks = <<>>
    /\ fts_chunks = <<>>
    /\ raised = FALSE
    /\ response = Null
    /\ other = Null

SpecGrade == InitGrade /\ [][Grade]_vars

\* the answer stage and the endpoint alone, after runs whose embedding call
\* failed and whose full-text search returned a run of consecutive rows of
\* a store of MaxAnswerHits chunks, or in which every query of the store
\* failed
MaxAnswerHits == 14

AnswerQueries == {FusionQuery, <<"R", ".", "G", ".", " ", "6", "2">>}

AnswerInputs ==
    { <<_search_text_only([k \in 1..m |->
                              [row |-> ChunkRow(a + k - 1), fts_score |-> r]]),
        <<Ko("embed", "hybrid"), Ok("text", "only", m)>> >>
      : <<a, m, r>> \in { x \in (1..2) \X (1..MaxAnswerHits) \X FtsRanks :
                             x[1] + x[2] - 1 <= MaxAnswerHits } }
    \cup
    { << <<>>, <<Ko("embed", "hybrid"), Ko("text", "only"),
                 Ko("all", "except")>> >> }

InitAnswer ==
    /\ corpus = 1..MaxAnswerHits
    /\ \E q \in AnswerQueries :
       \E routed \in {Update(initial_state(q, None),
                             route_query(initial_state(q, None)))} :
       \E in \in AnswerInputs :
       \E retrieved \in {Update(routed, retrieve_return(routed, in[1]))} :
          /\ state = Update(retrieved, grade_documents(retrieved))
          /\ calls = in[2]
    /\ node = "generate"
    /\ visited = <<"route", "retrieve", "grade">>
    /\ pc = "idle"
    /\ chunks = <<>>
    /\ vec_chunks = <<>>
    /\ fts_chunks = <<>>
    /\ raised = FALSE
    /\ response = Null
    /\ other = Null

SpecAnswer == InitAnswer /\ [][Generate \/ Respond]_vars

---------------------------------------------------------------------------
(* The retrieval stage *)

\* retrieve_documents has just returned: the state is the dict it returned
Returned == node = "grade"

Idx(op, ctx) ==
    {i \in DOMAIN calls : calls[i].op = op /\ calls[i].ctx = ctx}

\* some call of this kind raised
Failed(op, ctx) == \E i \in Idx(op, ctx) : ~calls[i].ok

\* C1, as stated: for every non-empty corpus, every query and every routing
\* decision retrieve_documents returns a non-empty chunk list, whichever of
\* the embedding call, code lookup, vector search, full-text search or
\* sample-all query yields nothing or raises.
C1_NonEmptyWhateverFails ==
    (Returned /\ corpus # {}) => state.retrieval # <<>>

\* C1, amended: for a non-empty corpus retrieve_documents returns a non-empty
\* chunk list whichever of the embedding call, code lookup, vector search or
\* full-text search yields nothing or raises, and also when the first
\* sample-all query raises; it returns the empty list exactly when the
\* sample-all query issued in the outer handler raises.
C1_NonEmptyUnlessLastSampleAllFails ==
    (Returned /\ corpus # {}) =>
        (state.retrieval = <<>> <=> Failed("all", "except"))

\* the sample-all query raised under `if not chunks`, and its repetition in
\* the outer handler filled the list
C1_Witness ==
    /\ Returned /\ corpus # {}
    /\ Failed("all", "fallback")
    /\ state.retrieval # <<>>

\* C2: retrieve_documents never raises to the orchestrator: an exception of
\* the embedding service, the code lookup, the vector search, the full-text
\* search or the sample-all query is caught inside the stage, which still
\* returns a (possibly empty) chunk list.
C2_NeverRaises ==
    /\ ~raised
    /\ node # "ABORT"
    /\ (calls # <<>> /\ pc = "idle") =>
           \E i \in DOMAIN visited : visited[i] = "retrieve"
    /\ Returned => "retrieval" \in DOMAIN state

\* the embedding call, the full-text search and the sample-all query all
\* raised, and the stage returned the empty list
C2_Witness ==
    /\ Returned
    /\ Failed("embed", "hybrid")
    /\ Failed("text", "only")
    /\ Failed("all", "except")
    /\ state.retrieval = <<>>

\* the calls of one retrieve to the store's strategies, by kind
HybridIdx == {i \in DOMAIN calls : calls[i].ctx = "hybrid"}

TextOnlyIdx == Idx("text", "only")

SampleAllIdx == {i \in DOMAIN calls : calls[i].op = "all"}

StrategyIdx ==
    {i \in DOMAIN calls : calls[i].op \in {"code", "embed", "vector", "text"}}

\* the hybrid search ran to its end and fused nothing
HybridYieldedNothing ==
    /\ \E i \in Idx("text", "hybrid") : calls[i].ok /\ calls[i].n = 0
    /\ \E i \in Idx("vector", "hybrid") : calls[i].ok /\ calls[i].n = 0

HybridRaised == \E i \in HybridIdx : ~calls[i].ok

\* the last strategy tried returned rows
Yielded ==
    /\ StrategyIdx # {}
    /\ LET l == CHOOSE i \in StrategyIdx : \A j \in StrategyIdx : j <= i
       IN  /\ calls[l].ok
           /\ \/ calls[l].n > 0
              \/ /\ calls[l].ctx = "hybrid"
                 /\ \E v \in Idx("vector", "hybrid") : calls[v].n > 0

\* C7, as stated: the chain is hybrid search, full-text-only search,
\* sample-all: the sample-all query is issued only after full-text-only
\* search was attempted and yielded nothing or raised, and full-text-only
\* search is attempted whenever the hybrid search yielded nothing or raised.
C7_FixedOrder ==
    /\ \A a \in SampleAllIdx :
          \E t \in TextOnlyIdx : t < a /\ (~calls[t].ok \/ calls[t].n = 0)
    /\ (Returned /\ (HybridYieldedNothing \/ HybridRaised)) => TextOnlyIdx # {}

\* C7, amended: within one retrieve call no strategy is tried after a later
\* one of the order code lookup or hybrid search, full-text-only search,
\* sample-all; full-text-only search is attempted exactly when the hybrid
\* search raised, not when it yielded nothing; the sample-all query is
\* issued exactly when the last strategy tried yielded nothing or raised, or
\* when the query is blank and no strategy is tried.
C7_ChainAsCoded ==
    Returned =>
        /\ \A h \in HybridIdx : \A t \in TextOnlyIdx : h < t
        /\ \A t \in StrategyIdx : \A a \in SampleAllIdx : t < a
        /\ Cardinality(TextOnlyIdx) <= 1
        /\ TextOnlyIdx # {} <=> HybridRaised
        /\ SampleAllIdx # {} <=> ~Yielded

\* the embedding call raised, full-text-only search found nothing, and the
\* sample-all query was issued
C7_Witness ==
    /\ Returned
    /\ Failed("embed", "hybrid")
    /\ \E t \in TextOnlyIdx : calls[t].ok /\ calls[t].n = 0
    /\ Idx("all", "fallback") # {}

---------------------------------------------------------------------------
(* The run *)

StageOrder == <<"route", "retrieve", "grade", "generate">>

C4_EndsWithAnAnswer ==
    <>(/\ node = "DONE"
       /\ Get(state, "generation", Null) # Null
       /\ response.status_code = 200)

\* the embedding service, the store and the completion service each raised
\* in a run that was answered
C4_Witness ==
    /\ node = "DONE"
    /\ response.status_code = 200
    /\ Failed("embed", "hybrid")
    /\ Failed("text", "only")
    /\ Failed("complete", "generate")

\* C5: a generation with has_sufficient_evidence = false, from the
\* insufficient-evidence path or from the generation-failure path, has no
\* citations and confidence 0.0.
C5_NoEvidenceNoCitations ==
    LET generation == Get(state, "generation", Null)
    IN  (generation # Null /\ ~generation.has_sufficient_evidence) =>
            /\ generation.citations = <<>>
            /\ generation.confidence = Zero

\* the completion service raised on a non-empty context
C5_Witness ==
    /\ "error" \in DOMAIN state
    /\ Failed("complete", "generate")
    /\ ~state.generation.has_sufficient_evidence

\* nothing to use: the insufficient-evidence path
C5_WitnessInsufficient ==
    /\ "generation" \in DOMAIN state
    /\ "error" \notin DOMAIN state
    /\ ~state.generation.has_sufficient_evidence

\* C6: from the end of GRADE to the terminal state, the relevant chunks held
\* in the run state are among the retrieved chunks held in that same state.
C6_RelevantAmongRetrieved ==
    LET relevant == Get(state, "relevant_chunks", <<>>)
        retrieved == Get(state, "retrieval", <<>>)
    IN  (\E i \in DOMAIN visited : visited[i] = "grade") =>
            \A i \in DOMAIN relevant :
                \E j \in DOMAIN retrieved : retrieved[j] = relevant[i]

---------------------------------------------------------------------------
(* The router *)

\* route_query has just returned: the state is the dict it returned
Routed == visited = <<"route">>

HasDigit(w) == \E i \in DOMAIN w : IsDigit(w[i])

HasSectionWord(w) == \E k \in SECTION_WORDS : Contains(Lower(w), k)

\* the places, among the whitespace-delimited words ws of a query, of the
\* dotted-numeric tokens and of the section keywords followed by a number
DottedIdx(ws) == {i \in DOMAIN ws : DottedNum(ws[i], 1)}

SectionIdx(ws) ==
    {i \in DOMAIN ws : /\ Lower(ws[i]) \in SECTION_WORDS
                       /\ i + 1 <= Len(ws)
                       /\ DottedNum(ws[i + 1], 0)}

\* every digit run and every section keyword is a word of its own
Clean(ws) ==
    \A i \in DOMAIN ws :
        /\ HasDigit(ws[i]) => DottedNum(ws[i], 0)
        /\ HasSectionWord(ws[i]) => Lower(ws[i]) \in SECTION_WORDS

Least(S) == CHOOSE i \in S : \A j \in S : i <= j

\* C8, as stated: a query containing a dotted-numeric token is routed to
\* CODE with extracted_code equal to that token, and to the section-prefixed
\* number when it holds both a section-prefixed number and a bare dotted
\* token, wherever the two occur.
C8_CodeIsTheToken ==
    Routed =>
        \A ws \in {Split(state.query)} :
            DottedIdx(ws) # {} =>
                /\ state.query_type = "code"
                /\ state.router_result.extracted_code \in
                       IF SectionIdx(ws) # {}
                       THEN {ws[i + 1] : i \in SectionIdx(ws)}
                       ELSE {ws[i] : i \in DottedIdx(ws)}

\* C8, amended: a query containing a whitespace-delimited dotted-numeric
\* token is routed to CODE.  When every digit run and every section keyword
\* of the query is a whitespace-delimited word of its own, extracted_code is
\* the first section-prefixed number when there is one, wherever it stands,
\* and otherwise the first dotted-numeric token; a digit run glued to other
\* characters is cut at its word boundaries instead.
C8_CodeOfCleanQuery ==
    Routed =>
        \A ws \in {Split(state.query)} :
            /\ DottedIdx(ws) # {} => state.query_type = "code"
            /\ (Clean(ws) /\ SectionIdx(ws) # {}) =>
                   /\ state.query_type = "code"
                   /\ state.router_result.extracted_code =
                          ws[Least(SectionIdx(ws)) + 1]
            /\ (Clean(ws) /\ SectionIdx(ws) = {} /\ DottedIdx(ws) # {}) =>
                   state.router_result.extracted_code = ws[Least(DottedIdx(ws))]

\* a bare dotted token stands before the section-prefixed number, which is
\* the code extracted
C8_Witness ==
    /\ Routed
    /\ \E ws \in {Split(state.query)} :
          /\ Clean(ws)
          /\ SectionIdx(ws) # {}
          /\ \E i \in DottedIdx(ws) : i < Least(SectionIdx(ws))
          /\ state.router_result.extracted_code = ws[Least(SectionIdx(ws)) + 1]

NoCodePattern(q) == Matches(q, SectionAt) = {} /\ Matches(q, CodeAt) = {}

\* extracted_metadata starts with this label
HasLabel(label) ==
    /\ state.router_result.extracted_metadata # None
    /\ StartsWith(state.router_result.extracted_metadata, label \o <<" ">>)

\* C9: a query that matches no code pattern and one or more of the gazette,
\* decision and appendix patterns is routed to METADATA with no extracted
\* code and the label of the first of R.G., A.E., EK that matches, never a
\* later one; a query matching no code and no metadata pattern is routed to
\* VECTOR with both extracted fields empty.
C9_FirstLabelInOrder ==
    (Routed /\ NoCodePattern(state.query)) =>
        \A m \in {<<Matches(state.query, RgAt) # {},
                    Matches(state.query, AeAt) # {},
                    Matches(state.query, EkAt) # {},
                    Matches(state.query, DateAt) # {}>>} :
            /\ (m[1] \/ m[2] \/ m[3]) =>
                   /\ state.query_type = "metadata"
                   /\ state.router_result.query_type = "metadata"
                   /\ state.router_result.extracted_code = None
                   /\ HasLabel(LABEL_RG) <=> m[1]
                   /\ HasLabel(LABEL_AE) <=> (~m[1] /\ m[2])
                   /\ HasLabel(LABEL_EK) <=> (~m[1] /\ ~m[2] /\ m[3])
            /\ ~(m[1] \/ m[2] \/ m[3] \/ m[4]) =>
                   /\ state.query_type = "vector"
                   /\ state.router_result.extracted_code = None
                   /\ state.router_result.extracted_metadata = None

\* a decision number stands before a gazette number in the query, and the
\* label is the gazette's
C9_Witness ==
    /\ Routed /\ NoCodePattern(state.query)
    /\ \E rg \in Matches(state.query, RgAt) :
          \E ae \in Matches(state.query, AeAt) : ae[2] < rg[1]
    /\ HasLabel(LABEL_RG)

\* the query holds a date, no section keyword, no gazette, decision or
\* appendix reference, and no digit outside the date
DateOnly(q) ==
    /\ Search(q, DateAt) # None
    /\ ~HasSectionWord(q)
    /\ Matches(q, RgAt) = {} /\ Matches(q, AeAt) = {} /\ Matches(q, EkAt) = {}
    /\ \A i \in DOMAIN q :
          IsDigit(q[i]) => /\ Search(q, DateAt)[1] <= i
                           /\ i <= Search(q, DateAt)[2]

\* C10: a query whose only structured token is a date DD.MM.YYYY is routed
\* to METADATA with extracted_metadata labelled as a date.
C10_DateIsMetadata ==
    (Routed /\ DateOnly(state.query)) =>
        /\ state.query_type = "metadata"
        /\ state.router_result.extracted_metadata =
               Labelled(LABEL_DATE, state.query, Search(state.query, DateAt))

---------------------------------------------------------------------------
(* The hybrid search *)

\* the ids of a result list, and the place of an id in it
IdsOf(list) == {list[k].chunk_id : k \in DOMAIN list}

PlaceIn(list, id) == CHOOSE k \in DOMAIN list : list[k].chunk_id = id

\* 1/(60 + i + 1) for the 0-based rank i of id in list, nothing when absent
Term(list, id) ==
    IF id \in IdsOf(list) THEN <<1, 60 + (PlaceIn(list, id) - 1) + 1>>
    ELSE Zero

Fusion(vec, fts, id) == RAdd(Term(vec, id), Term(fts, id))

\* _search_hybrid has just returned a non-empty list to retrieve_documents
Fused == pc = "fuse" /\ node' = "grade"

\* C11: the fusion score recorded on an output chunk found at 0-based rank i
\* of the vector results and rank j of the full-text results is
\* 1/(60+i+1) + 1/(60+j+1); a chunk found in one list only gets that list's
\* term only.
C11_FusionScore ==
    [][Fused =>
         \A k \in DOMAIN state'.retrieval :
            state'.retrieval[k].rrf_rank =
                Fusion(vec_chunks, fts_chunks, state'.retrieval[k].chunk_id)]_vars

\* a chunk second in the vector list and first in the full-text list, next
\* to the chunk first in the vector list, which the full-text list lacks
C11_Witness ==
    /\ node = "grade"
    /\ \E k, l \in DOMAIN state.retrieval :
          /\ state.retrieval[k].rrf_rank = RAdd(<<1, 61>>, <<1, 62>>)
          /\ state.retrieval[l].rrf_rank = <<1, 61>>
          /\ state.retrieval[l].score_fts = Zero

\* the place at which an id was first inserted: the vector list, then the
\* full-text list
Inserted(vec, fts, id) ==
    IF id \in IdsOf(vec) THEN PlaceIn(vec, id) ELSE Len(vec) + PlaceIn(fts, id)

\* a stands before b: the higher score, and among equal scores `first`
Before(vec, fts, a, b, first(_, _)) ==
    \/ RLt(Fusion(vec, fts, b), Fusion(vec, fts, a))
    \/ Fusion(vec, fts, a) = Fusion(vec, fts, b) /\ first(a, b)

\* out holds the first TOP_K_FINAL ids of the union in the order Before
TopOfUnion(vec, fts, out, first(_, _)) ==
    LET union == IdsOf(vec) \cup IdsOf(fts)
        id(k) == out[k].chunk_id
    IN  /\ Len(out) = IF Cardinality(union) < 12 THEN Cardinality(union) ELSE 12
        /\ \A k \in DOMAIN out : id(k) \in union
        /\ \A k, l \in DOMAIN out :
              k < l => Before(vec, fts, id(k), id(l), first)
        /\ \A x \in union \ {id(k) : k \in DOMAIN out} :
              \A k \in DOMAIN out : Before(vec, fts, id(k), x, first)

\* C12, as stated: the hybrid result is the union of the vector and
\* full-text hits sorted by fusion score descending and cut to 12 chunks,
\* chunks of equal score standing in their insertion order in the source
\* lists.
C12_TiesInInsertionOrder ==
    [][Fused =>
         TopOfUnion(vec_chunks, fts_chunks, state'.retrieval,
                    LAMBDA a, b : Inserted(vec_chunks, fts_chunks, a)
                                      < Inserted(vec_chunks, fts_chunks, b))]_vars

\* C12, amended: the hybrid result is the union of the vector and full-text
\* hits sorted by fusion score descending and cut to 12 chunks; chunks of
\* equal score stand in the order in which the set of their ids is
\* iterated, which is increasing chunk id here and not their insertion
\* order in the source lists; the same two lists always give the same
\* order.
C12_TiesInSetOrder ==
    [][Fused =>
         TopOfUnion(vec_chunks, fts_chunks, state'.retrieval,
                    LAMBDA a, b : a < b)]_vars

\* more than 12 chunks were fused, the result was cut, and the first two
\* have one score, the full-text hit standing before the vector hit
C12_Witness ==
    /\ node = "grade"
    /\ Len(state.retrieval) = 12
    /\ state.retrieval[1].rrf_rank = state.retrieval[2].rrf_rank
    /\ state.retrieval[1].score_vec = Zero
    /\ state.retrieval[2].score_vec # Zero

---------------------------------------------------------------------------
(* The grader *)

\* grade_documents has returned: the pairs of a chunk and its grade
Graded == Get(state, "graded_chunks", <<>>)

Scored(chunk) == chunk.score_vec # Zero \/ chunk.score_fts # Zero

\* C13, as stated: for every query, a chunk whose vector or full-text score
\* is nonzero is graded relevant, whatever its keyword overlap and its
\* other attributes.
C13_ScoredIsRelevant ==
    \A k \in DOMAIN Graded : Scored(Graded[k][1]) => Graded[k][2].is_relevant

\* C13, amended: for every query, a chunk of at least 50 characters of
\* content whose vector or full-text score is nonzero is graded relevant,
\* whatever its keyword overlap; a shorter chunk is not, whatever its
\* scores.
C13_ScoredAndLongIsRelevant ==
    \A k \in DOMAIN Graded :
        (Scored(Graded[k][1]) /\ Len(Graded[k][1].content) >= 50)
            => Graded[k][2].is_relevant

\* a chunk of exactly 50 characters with no keyword of the query, a
\* full-text score of 0.05 and nothing else above the thresholds
C13_Witness ==
    \E k \in DOMAIN Graded :
        /\ Len(Graded[k][1].content) = 50
        /\ Graded[k][1].score_fts = <<1, 20>>
        /\ Graded[k][2].reason = <<"Keyword", Zero, "Retrieval", <<1, 20>> >>
        /\ Graded[k][2].is_relevant

\* C14: for every query, a chunk whose content is shorter than 50
\* characters is graded irrelevant with confidence 0.9, whatever its
\* retrieval scores.
C14_ShortIsIrrelevant ==
    \A k \in DOMAIN Graded :
        Len(Graded[k][1].content) < 50 =>
            /\ ~Graded[k][2].is_relevant
            /\ Graded[k][2].confidence = <<9, 10>>

\* a chunk of 49 characters that the code lookup scored 1.0 throughout
C14_Witness ==
    \E k \in DOMAIN Graded :
        /\ Len(Graded[k][1].content) = 49
        /\ Graded[k][1].score_vec = One
        /\ Graded[k][1].score_fts = One
        /\ ~Graded[k][2].is_relevant

---------------------------------------------------------------------------
(* The answer stage *)

\* the chunks of the state generate_answer is called with
Relevant == Get(state, "relevant_chunks", <<>>)

Retrieved == Get(state, "retrieval", <<>>)

Evidence == IF Relevant # <<>> THEN Relevant ELSE Retrieved

\* generate_answer runs in this step
Answering == node = "generate" /\ node' = END

\* the completion service was called in this step, and returned
Completed ==
    /\ Len(calls') = Len(calls) + 1
    /\ calls'[Len(calls')].op = "complete"
    /\ calls'[Len(calls')].ok

\* C15: with an empty evidence set (no relevant chunk and no retrieved
\* chunk) generate_answer returns confidence 0.0, no citations and
\* has_sufficient_evidence = false, and does not call the completion
\* service.
C15_EmptyEvidence ==
    [][(Answering /\ Relevant = <<>> /\ Retrieved = <<>>) =>
          /\ state'.generation.confidence = Zero
          /\ state'.generation.citations = <<>>
          /\ ~state'.generation.has_sufficient_evidence
          /\ calls' = calls]_vars

\* every query of the store failed, and the answer was built without the
\* completion service
C15_Witness ==
    /\ node = END
    /\ \A i \in DOMAIN calls : ~calls[i].ok /\ calls[i].op # "complete"
    /\ ~state.generation.has_sufficient_evidence
    /\ state.generation.confidence = Zero

\* the number of chunks retrieve_documents returned in this run: grade
\* pairs each of them with its grade
NumRetrieved == Len(Get(state, "graded_chunks", <<>>))

\* the answer built in this step is the insufficient-evidence template
Insufficient == "template" \in DOMAIN state'.generation.answer

\* C16: the insufficient-evidence answer says that chunks were found but
\* none was relevant exactly when chunks were retrieved and none was graded
\* relevant, and that no matching documents were found exactly when nothing
\* was retrieved.
C16_FindingsDistinguish ==
    [][(Answering /\ Insufficient) =>
          state'.generation.answer.findings =
              IF NumRetrieved > 0
              THEN <<"Found chunks, but none were relevant", NumRetrieved>>
              ELSE <<"No matching documents were found in the database.">>]_vars

\* C17: with a non-empty evidence set and a completion that succeeds, the
\* answer has has_sufficient_evidence = true, one citation per chunk of the
\* first 8 evidence chunks, in their order and with their chunk_id and
\* code, and confidence 0.8 when at least 3 chunks were used, 0.6
\* otherwise.
C17_CitesFirstEight ==
    [][(Answering /\ Evidence # <<>> /\ Completed) =>
          LET generation == state'.generation
              n == IF Len(Evidence) < 8 THEN Len(Evidence) ELSE 8
          IN  /\ generation.has_sufficient_evidence
              /\ Len(generation.citations) = n
              /\ \A k \in 1..n :
                    /\ generation.citations[k].chunk_id = Evidence[k].chunk_id
                    /\ generation.citations[k].reg_code = Evidence[k].reg_code
              /\ generation.confidence =
                    IF Len(Evidence) >= 3 THEN <<8, 10>> ELSE <<6, 10>>]_vars

\* the full-text search returned rows 1 to 14, nine of them were relevant,
\* and the eighth of these is the last one cited
C17_Witness ==
    /\ node = END
    /\ calls[2].n >= 14
    /\ "text" \in DOMAIN state.generation.answer
    /\ Len(state.generation.citations) = 8
    /\ state.generation.citations[1].chunk_id = 1
    /\ state.generation.citations[8].chunk_id = 12
    /\ state.generation.confidence = <<8, 10>>

\* C18: when the completion service fails the answer stage does not raise:
\* it returns an answer describing the error, with no citations,
\* confidence 0.0 and has_sufficient_evidence = false, records the error
\* string in the error field of the state, and the run completes normally;
\* when the completion service succeeds the error field stays unset.
C18_CompletionFailureIsAnswered ==
    (node \in {END, "DONE"}) =>
        IF Failed("complete", "generate")
        THEN /\ Get(state, "error", None) \in LlmErrors
             /\ Get(state, "generation", Null) # Null
             /\ state.generation.answer = [error |-> state.error]
             /\ state.generation.citations = <<>>
             /\ state.generation.confidence = Zero
             /\ ~state.generation.has_sufficient_evidence
             /\ ~raised
             /\ node = "DONE" => response.status_code = 200
        ELSE Get(state, "error", None) = None

\* the completion service raised, and the endpoint answered with the error
\* text
C18_Witness ==
    /\ node = "DONE"
    /\ Failed("complete", "generate")
    /\ response.status_code = 200
    /\ "error" \in DOMAIN response.answer

\* C19: in a run in which retrieval returned one chunk or more and the
\* grader marked none of them relevant, the answer stage takes the
\* retrieved chunks as its evidence and attempts generation; the
\* insufficient-evidence answer is produced only when retrieval returned no
\* chunk at all.
C19_FallsBackToRetrieved ==
    [][Answering =>
          /\ (NumRetrieved > 0 /\ Relevant = <<>>) =>
                 /\ Len(calls') = Len(calls) + 1
                 /\ calls'[Len(calls')].op = "complete"
          /\ Insufficient => NumRetrieved = 0]_vars

---------------------------------------------------------------------------
(* The result of a run *)

\* C20: the result returned to the caller reports search_iterations = 1 and
\* a query_history of one element, the submitted query.
C20_ReportsOneIteration ==
    (node = "DONE" /\ response.status_code = 200) =>
        /\ response.search_iterations = 1
        /\ Len(response.query_history) = 1

---------------------------------------------------------------------------
(* Blank queries *)

\* retrieve_documents is running, or has just returned, on a query that is
\* empty or all whitespace
BlankRetrieve ==
    /\ node \in {"retrieve", "grade"}
    /\ ~NonBlank(state.query)

---------------------------------------------------------------------------
(* Concurrent runs *)

\* the lists retrieve_documents can return for routed state st on the rows
\* ids, over all answers and failures of the store and the embedding
\* service
AloneRetrievals(st, ids) ==
    LET all == _search_all_chunks(SampleAll(ids, TOP_K_FINAL))
        found == _search_by_code(
                     LookupByCode(ids, st.router_result.extracted_code))
    IN  {all, <<>>} \cup
        CASE FirstStrategy(st) = "code" -> {found}
          [] FirstStrategy(st) = "embed" ->
                 { _search_hybrid(_search_vector(Take(v, TOP_K_VECTOR)),
                                  _search_text_only(Take(f, TOP_K_FTS)))
                   : <<v, f>> \in VecAnswers(ids) \X FtsAnswers(ids) }
                 \cup
                 { _search_text_only(Take(f, TOP_K_FTS)) : f \in FtsAnswers(ids) }
          [] OTHER -> {}

\* the answers of the endpoint to a run of `query` executed alone
AloneResponses(query, ids) ==
    LET routed == Update(initial_state(query, None),
                         route_query(initial_state(query, None)))
        graded(result) ==
            LET retrieved == Update(routed, retrieve_return(routed, result))
            IN  Update(retrieved, grade_documents(retrieved))
        outcomes(st) ==
            IF chunks_to_use(st) = <<>> THEN {None}
            ELSE LlmAnswers \cup LlmErrors
    IN  UNION { { chat(Update(st, generate_answer(st, o)), FALSE)
                  : o \in outcomes(st) }
                : st \in {graded(result)
                             : result \in AloneRetrievals(routed, ids)} }

\* for each query of PairQueries, the answers to it on the store of the
\* two runs
AloneAnswers ==
    [q \in UNION {{qs[1], qs[2]} : qs \in PairQueries} |->
        AloneResponses(q, 1..MaxPairChunks)]

\* the two runs: the one that holds the loop and the one that waits
PairRuns ==
    { [other EXCEPT !.id = 3 - other.id, !.run = Locals], other }

\* the query run_agent was called with for run id
QueryOf(id) == other.queries[id]

---------------------------------------------------------------------------
(* The fields of the run state *)

\* the fields each stage writes
Owned(stage) ==
    CASE stage = "route"    -> {"query_type", "router_result", "query_history"}
      [] stage = "retrieve" -> {"retrieval", "search_iterations"}
      [] stage = "grade"    -> {"graded_chunks", "relevant_chunks"}
      [] stage = "generate" -> {"generation", "error"}
      [] OTHER              -> {}

\* C23: each stage only adds or replaces the fields it owns and leaves every
\* other field of the run state as it was: the routing decision, query type
\* and query history are still there after RETRIEVE, the retrieved list and
\* search_iterations after GRADE, every earlier field after GENERATE, and
\* the query is the submitted query in every state.
C23_StagesKeepOtherFields ==
    [][\A key \in DOMAIN state \ Owned(node) :
          /\ key \in DOMAIN state'
          /\ state'[key] = state[key]]_vars

---------------------------------------------------------------------------
(* Retries *)

OpIdx(op) == {i \in DOMAIN calls : calls[i].op = op}

\* C24, as stated: no operation is retried within a run: once an embedding
\* call, a vector search, a full-text search, a sample-all query or a
\* completion call has failed, the same operation is not issued again.
C24_NoOperationTwice ==
    \A i, j \in DOMAIN calls :
        (i < j /\ ~calls[i].ok) => calls[j].op # calls[i].op

\* C24, amended: an embedding call, a code lookup, a vector search and a
\* completion call are issued at most once in a run, failed or not.  A
\* full-text search is issued a second time exactly as the full-text-only
\* strategy after it, or another call of the hybrid search, has failed, and
\* a sample-all query is issued a second time exactly by the outer handler
\* after a call has failed; nothing is issued a third time.
C24_RetriesAsCoded ==
    /\ \A op \in {"embed", "code", "vector", "complete"} :
          Cardinality(OpIdx(op)) <= 1
    /\ Cardinality(Idx("text", "hybrid")) <= 1
    /\ Cardinality(Idx("text", "only")) <= 1
    /\ Cardinality(Idx("all", "fallback")) <= 1
    /\ Cardinality(Idx("all", "except")) <= 1
    /\ \A j \in Idx("text", "only") : j > 1 /\ ~calls[j - 1].ok
    /\ \A j \in Idx("all", "except") : j > 1 /\ ~calls[j - 1].ok
    /\ \A i, j \in DOMAIN calls :
          (i < j /\ ~calls[i].ok /\ calls[j].op = calls[i].op) =>
              /\ j = i + 1
              /\ calls[i].op \in {"text", "all"}

\* the full-text search failed in the hybrid search and was issued again,
\* found nothing, and the sample-all query failed and was issued again
C24_Witness ==
    /\ Len(calls) >= 6
    /\ calls[3].op = "text" /\ ~calls[3].ok
    /\ calls[4].op = "text" /\ calls[4].ok
    /\ calls[5].op = "all" /\ ~calls[5].ok
    /\ calls[6].op = "all" /\ calls[6].ok

---------------------------------------------------------------------------
(* The keyword score *)

\* the meaningful tokens of a query: lower-cased, split at whitespace,
\* longer than 2 characters, no stop word
Meaningful(query) ==
    SelectSeq(Split(Lower(query)), LAMBDA w : Len(w) > 2 /\ w \notin stop_words)

\* the fraction of the tokens that are a substring of the lower-cased
\* content
Overlap(tokens, content) ==
    Rat(Cardinality({i \in DOMAIN tokens : Contains(Lower(content), tokens[i])}),
        Len(tokens))

\* the keyword score the grader reports for its k-th chunk
KeywordScore(k) == Graded[k][2].reason[2]

LongEnough(k) == Len(Graded[k][1].content) >= 50

\* C25, as stated: the keyword score is the fraction of the query's
\* meaningful tokens that occur as a substring of the lower-cased content,
\* and 0.5 for every query without a meaningful token, the empty query
\* included.
C25_HalfWithoutTokens ==
    \A k \in DOMAIN Graded :
        LongEnough(k) =>
            KeywordScore(k) =
                IF Meaningful(state.query) = <<>> THEN Half
                ELSE Overlap(Meaningful(state.query), Graded[k][1].content)

\* C25, amended: the keyword score is 0.0 for the empty query, 0.5 for
\* every other query without a meaningful token, and otherwise the
\* fraction of the query's meaningful tokens that occur as a substring of
\* the lower-cased content.
C25_ZeroForEmptyQuery ==
    \A k \in DOMAIN Graded :
        LongEnough(k) =>
            KeywordScore(k) =
                IF state.query = <<>> THEN Zero
                ELSE IF Meaningful(state.query) = <<>> THEN Half
                ELSE Overlap(Meaningful(state.query), Graded[k][1].content)

\* "Exam rule of appeal" on the contents "Exam rules...": two of its three
\* tokens are in it, `rule` as a part of `rules`
C25_Witness ==
    /\ Len(Meaningful(state.query)) = 3
    /\ \E k \in DOMAIN Graded :
          /\ Len(Graded[k][1].content) = 50
          /\ KeywordScore(k) = <<2, 3>>

---------------------------------------------------------------------------
(* The relevance rule *)

\* the retrieval score of a chunk: the largest of its three scores
RetrievalScore(chunk) ==
    IF RLt(chunk.score_vec, chunk.score_fts)
    THEN (IF RLt(chunk.score_fts, chunk.rrf_rank) THEN chunk.rrf_rank
          ELSE chunk.score_fts)
    ELSE (IF RLt(chunk.score_vec, chunk.rrf_rank) THEN chunk.rrf_rank
          ELSE chunk.score_vec)

\* 0.6 * keyword score + 0.4 * retrieval score, as a fraction
Combined(k) ==
    LET kw == KeywordScore(k)
        rs == RetrievalScore(Graded[k][1])
    IN  Rat(6 * kw[1] * rs[2] + 4 * rs[1] * kw[2], 10 * kw[2] * rs[2])

Above(a, n, d) == a[1] * d > n * a[2]

\* C26: for every chunk with content of at least 50 characters the grader
\* returns is_relevant = true exactly when combined > 0.1 or keyword score
\* > 0.2 or retrieval score > 0.3 or vector score > 0 or full-text score
\* > 0, with retrieval score = max(vector, full-text, fusion score) and
\* combined = 0.6 * keyword score + 0.4 * retrieval score; the confidence
\* is min(combined + 0.3, 1.0) and lies in [0, 1].
C26_RelevanceRule ==
    \A k \in DOMAIN Graded :
        LongEnough(k) =>
            LET chunk == Graded[k][1]
                grade == Graded[k][2]
                more == Rat(10 * Combined(k)[1] + 3 * Combined(k)[2],
                            10 * Combined(k)[2])
            IN  /\ grade.reason[4] = RetrievalScore(chunk)
                /\ grade.is_relevant <=>
                      \/ Above(Combined(k), 1, 10)
                      \/ Above(KeywordScore(k), 2, 10)
                      \/ Above(RetrievalScore(chunk), 3, 10)
                      \/ Above(chunk.score_vec, 0, 1)
                      \/ Above(chunk.score_fts, 0, 1)
                /\ grade.confidence = IF Above(more, 1, 1) THEN One ELSE more
                /\ ~Above(grade.confidence, 1, 1)
                /\ grade.confidence[1] >= 0

\* a long chunk is graded irrelevant: no word of the query is in it and
\* all it has is a small fusion score
C26_Witness ==
    \E k \in DOMAIN Graded :
        /\ LongEnough(k)
        /\ ~Graded[k][2].is_relevant
        /\ Above(Graded[k][1].rrf_rank, 0, 1)

---------------------------------------------------------------------------
(* The scores of the vector search *)

\* the vector search has just answered
VectorAnswered == pc = "vector" /\ pc' = "text_hybrid"

\* C27: every vector-search hit with store distance d >= 0 is given
\* vector score 1/(1+d), so that the closest possible hit (d = 0) gets the
\* maximal score 1.0 and the score is strictly decreasing in d; the hit at
\* 0-based rank r is given the rank-based score 1/(60 + r + 1).
C27_ScoreOfDistance ==
    [][VectorAnswered =>
         \E hits \in VecAnswers(corpus) :
            LET top == Take(hits, 20)
            IN  /\ Len(vec_chunks') = Len(top)
                /\ \A k \in DOMAIN top :
                      LET d == top[k].vec_distance
                      IN  /\ vec_chunks'[k].chunk_id = top[k].row.chunk_id
                          /\ vec_chunks'[k].score_vec = Rat(d[2], d[2] + d[1])
                          /\ vec_chunks'[k].rrf_rank = Rat(1, 60 + (k - 1) + 1)]_vars

---------------------------------------------------------------------------
(* The excerpt of a citation *)

Citations ==
    IF "generation" \in DOMAIN state THEN state.generation.citations ELSE <<>>

\* the content of the chunk a citation is derived from
Cited(citation) == ChunkRow(citation.chunk_id).content

\* C28, as stated: every citation's excerpt is at most 200 characters long:
\* the chunk content when that has at most 200 characters, and otherwise a
\* truncation of it with an ellipsis marker, the whole still within 200
\* characters.
C28_ExcerptWithin200 ==
    \A k \in DOMAIN Citations :
        LET excerpt == Citations[k].excerpt
            content == Cited(Citations[k])
        IN  /\ Len(excerpt) <= 200
            /\ Len(content) <= 200 => excerpt = content
            /\ Len(content) > 200 =>
                  \E n \in 0..197 :
                      excerpt = SubSeq(content, 1, n) \o <<".", ".", ".">>

\* C28, amended: a citation's excerpt is the chunk content when that has at
\* most 200 characters, and otherwise its first 200 characters followed by
\* the three characters "...", 203 characters in all.
C28_ExcerptIs200AndEllipsis ==
    \A k \in DOMAIN Citations :
        LET excerpt == Citations[k].excerpt
            content == Cited(Citations[k])
        IN  /\ Len(content) <= 200 => excerpt = content
            /\ Len(content) > 200 =>
                  /\ Len(excerpt) = 203
                  /\ SubSeq(excerpt, 1, 200) = SubSeq(content, 1, 200)
                  /\ SubSeq(excerpt, 201, 203) = <<".", ".", ".">>

\* a chunk of 221 characters and one of 50 are cited
C28_Witness ==
    /\ \E k \in DOMAIN Citations :
          Len(Cited(Citations[k])) = 221 /\ Len(Citations[k].excerpt) = 203
    /\ \E k \in DOMAIN Citations :
          Len(Cited(Citations[k])) = 50 /\ Len(Citations[k].excerpt) = 50

---------------------------------------------------------------------------
(* The scores kept by the hybrid search *)

HitIn(list, id) == list[PlaceIn(list, id)]

\* C29: in the output of the hybrid search a chunk found by both searches
\* carries the vector score of its vector hit and full-text score 0.0; a
\* chunk found by the full-text search alone carries vector score 0.0 and
\* its full-text score; in both cases only the fusion score is replaced,
\* by the RRF sum.
C29_ScoresOfTheChosenHit ==
    [][Fused =>
         \A k \in DOMAIN state'.retrieval :
            LET out == state'.retrieval[k]
                id == out.chunk_id
                both == id \in IdsOf(vec_chunks) /\ id \in IdsOf(fts_chunks)
                text == id \notin IdsOf(vec_chunks) /\ id \in IdsOf(fts_chunks)
            IN  /\ both =>
                      /\ out.score_vec = HitIn(vec_chunks, id).score_vec
                      /\ out.score_fts = Zero
                      /\ [out EXCEPT !.rrf_rank = Zero] =
                            [HitIn(vec_chunks, id) EXCEPT !.rrf_rank = Zero]
                /\ text =>
                      /\ out.score_vec = Zero
                      /\ out.score_fts = HitIn(fts_chunks, id).score_fts
                      /\ [out EXCEPT !.rrf_rank = Zero] =
                            [HitIn(fts_chunks, id) EXCEPT !.rrf_rank = Zero]
                /\ (both \/ text) =>
                      out.rrf_rank = Fusion(vec_chunks, fts_chunks, id)]_vars

\* a chunk that both searches found, its full-text score gone, next to a
\* chunk of the full-text search alone
C29_Witness ==
    /\ node = "grade"
    /\ \E k, l \in DOMAIN state.retrieval :
          /\ \E i, j \in 0..1 :
                state.retrieval[k].rrf_rank = RAdd(<<1, 61 + i>>, <<1, 61 + j>>)
          /\ state.retrieval[k].score_vec = Half
          /\ state.retrieval[k].score_fts = Zero
          /\ state.retrieval[l].score_vec = Zero
          /\ state.retrieval[l].score_fts = <<1, 20>>

---------------------------------------------------------------------------
(* The grades of sampled and looked-up chunks *)

\* the strategy whose chunks the retrieve stage returned
ReturnedBy == IF calls = <<>> THEN "none" ELSE calls[Len(calls)].op

\* C30: every chunk returned by the sample-all fallback (vector and
\* full-text score 0, fusion score 0.5) or by the code lookup (all scores
\* 1.0) whose content has at least 50 characters is graded relevant, for
\* every query; after such a retrieval the relevant set is empty only if
\* every returned chunk has content shorter than 50 characters.
C30_SampledAndLookedUpAreRelevant ==
    ReturnedBy \in {"all", "code"} =>
        /\ \A k \in DOMAIN Graded :
              LET chunk == Graded[k][1]
                  scores == <<chunk.score_vec, chunk.score_fts, chunk.rrf_rank>>
              IN  /\ scores = IF ReturnedBy = "all"
                               THEN <<<<0, 1>>, <<0, 1>>, <<1, 2>>>>
                               ELSE <<<<1, 1>>, <<1, 1>>, <<1, 1>>>>
                  /\ Len(chunk.content) >= 50 => Graded[k][2].is_relevant
        /\ (Graded # <<>> /\ Relevant = <<>>) =>
              \A k \in DOMAIN Graded : Len(Graded[k][1].content) < 50

\* sampled chunks graded for a query none of whose words is in them: the
\* long ones are relevant, the short one is not
C30_Witness ==
    /\ ReturnedBy = "all"
    /\ \E k, l \in DOMAIN Graded :
          /\ Len(Graded[k][1].content) >= 50
          /\ Graded[k][2].reason[2] = Zero
          /\ Graded[k][2].is_relevant
          /\ Len(Graded[l][1].content) < 50
          /\ ~Graded[l][2].is_relevant

=============================================================================
